---- MODULE Spec2Model ----
(***************************************************************************)
(* shoddy-http: the HTTP message model, the content handler over the file  *)
(* system, the per-connection request handler and the listener's accept    *)
(* loop of src/shoddyhttp.py, and the forwarding proxy of                  *)
(* src/shoddyproxy.py.                                                     *)
(*                                                                         *)
(* Text is a sequence of tokens.  A token is one character ("x", "\r",     *)
(* " ") or a word whose characters never take part in a split ("GET",      *)
(* "HTTP/1.1", "/a"); len() and the UTF-8 length of a text are computed    *)
(* from its tokens.                                                        *)
(***************************************************************************)
EXTENDS Integers, Sequences, FiniteSets, TLC

VARIABLES
    serverKind,   \* "inline" (ShoddyHttpServer), "concurrent" (ConcurrentShoddyHttpServer),
                  \* "proxy" (ShoddyProxy), or "none": no server, the message model alone
    listener,     \* position of start(): "accept", "handling" (inside an inline handle()),
                  \* "terminated"; "none" when there is no server
    accepted,     \* number of connections accept() has returned
    fs,           \* the content directory: path -> node
    handlers,     \* slot -> the RequestHandler running there and its connection
    lastWrite,    \* path -> the last completed create/replace/delete of the content handler there
    message,      \* the message model alone: an object, its to_raw() text, that text decoded
    HttpResponses \* the class attributes of HttpResponses: the canned response objects,
                  \* shared by every handler of the process

vars == <<serverKind, listener, accepted, fs, handlers, lastWrite, message, HttpResponses>>

(***************************************************************************)
(* Bounds                                                                  *)
(***************************************************************************)
MaxConns == 3
MaxThreads == 2
MaxHeaders == 2

Slots == 1..MaxThreads

(***************************************************************************)
(* Text                                                                    *)
(***************************************************************************)
CR == "\r"
LF == "\n"
SP == " "
CRLF == <<CR, LF>>
EACUTE == "é"

\* Number of bytes of one token in UTF-8 (bytes.decode / str.encode).
Utf8Len(tok) == IF tok = EACUTE THEN 2 ELSE Len(tok)

\* Number of characters (code points) of one token.
CharLen(tok) == IF tok = EACUTE THEN 1 ELSE Len(tok)

RECURSIVE StrLen(_)
\* len(s): the number of characters (code points) of a text.
StrLen(s) == IF s = <<>> THEN 0 ELSE CharLen(Head(s)) + StrLen(Tail(s))

RECURSIVE ByteLen(_)
\* len(s.encode()): the number of bytes of a text on the wire or in a file.
ByteLen(s) == IF s = <<>> THEN 0 ELSE Utf8Len(Head(s)) + ByteLen(Tail(s))

IsAt(s, sep, i) ==
    /\ i + Len(sep) - 1 <= Len(s)
    /\ SubSeq(s, i, i + Len(sep) - 1) = sep

RECURSIVE Find(_, _, _)
\* str.find: index of the first occurrence of sep at or after i, 0 when none.
Find(s, sep, i) ==
    IF i + Len(sep) - 1 > Len(s) THEN 0
    ELSE IF IsAt(s, sep, i) THEN i
    ELSE Find(s, sep, i + 1)

RECURSIVE Split(_, _, _)
\* str.split(sep, maxsplit): maxsplit = -1 splits at every occurrence.
Split(s, sep, maxsplit) ==
    IF maxsplit = 0 THEN <<s>>
    ELSE LET i == Find(s, sep, 1)
         IN  IF i = 0 THEN <<s>>
             ELSE <<SubSeq(s, 1, i - 1)>>
                    \o Split(SubSeq(s, i + Len(sep), Len(s)), sep, maxsplit - 1)

RECURSIVE Join(_, _)
\* sep.join(parts)
Join(sep, parts) ==
    IF parts = <<>> THEN <<>>
    ELSE IF Len(parts) = 1 THEN parts[1]
    ELSE parts[1] \o sep \o Join(sep, Tail(parts))

(***************************************************************************)
(* Enumerations                                                            *)
(***************************************************************************)
HttpMethod == {"GET", "PUT", "HEAD", "POST", "DELETE", "UNSUPPORTED"}

HttpVersion == {"HTTP/1.1", "UNSUPPORTED"}

HttpStatusCode ==
    [OK |-> 200, NOT_MODIFIED |-> 304, BAD_REQUEST |-> 300, NOT_FOUND |-> 404,
     METHOD_NOT_ALLOWED |-> 405, REQUEST_TIMED_OUT |-> 408]

\* Mutant: a reason phrase whose name no status code has.
HttpStatusMessage_Unmatched ==
    [OK |-> <<"OK">>,
     NOT_MODIFIED |-> <<"Not", SP, "Modified">>,
     BAD_REQUEST |-> <<"Bad", SP, "Request">>,
     NOT_FOUND |-> <<"Not", SP, "Found">>,
     METHOD_NOT_ALLOWED |-> <<"Method", SP, "Not", SP, "Allowed">>,
     REQUEST_TIMED_OUT |-> <<"Request", SP, "Timed", SP, "Out">>,
     SERVER_ERROR |-> <<"Server", SP, "Error">>]

HttpStatusMessage ==
    [OK |-> <<"OK">>,
     NOT_MODIFIED |-> <<"Not", SP, "Modified">>,
     BAD_REQUEST |-> <<"Bad", SP, "Request">>,
     NOT_FOUND |-> <<"Not", SP, "Found">>,
     METHOD_NOT_ALLOWED |-> <<"Method", SP, "Not", SP, "Allowed">>,
     REQUEST_TIMED_OUT |-> <<"Request", SP, "Timed", SP, "Out">>]

(***************************************************************************)
(* Headers: None, or a dict kept in insertion order.  A value is an int    *)
(* or a str.                                                               *)
(***************************************************************************)
IntVal(n) == <<"int", n>>
StrVal(s) == <<"str", s>>

NoHeaders == [isNone |-> TRUE, items |-> <<>>]
Dict(items) == [isNone |-> FALSE, items |-> items]

\* f"{value}"
Format(value) == IF value[1] = "int" THEN <<ToString(value[2])>> ELSE value[2]

RECURSIVE HeaderLines(_)
HeaderLines(items) ==
    IF items = <<>> THEN <<>>
    ELSE <<items[1][1] \o <<":", SP>> \o Format(items[1][2])>> \o HeaderLines(Tail(items))

\* Mutant: the header block built without the test for no headers.
build_headers_unguarded(headers) == Join(CRLF, HeaderLines(headers.items)) \o CRLF

\* __build_headers of HttpResponse and of HttpRequest (the same code twice).
build_headers(headers) ==
    IF headers.isNone \/ Len(headers.items) <= 0 THEN <<>>
    ELSE Join(CRLF, HeaderLines(headers.items)) \o CRLF

\* headers[key] = value
DictPut(items, key, value) ==
    IF \E i \in 1..Len(items) : items[i][1] = key
    THEN [i \in 1..Len(items) |-> IF items[i][1] = key THEN <<key, value>> ELSE items[i]]
    ELSE Append(items, <<key, value>>)

(***************************************************************************)
(* HttpResponse                                                            *)
(***************************************************************************)
HttpResponse(version, status, headers, data) ==
    [version |-> version, status |-> status, headers |-> headers, data |-> data]

HttpResponse_build_status_line(r) ==
    <<r.version, SP, ToString(HttpStatusCode[r.status]), SP>>
        \o HttpStatusMessage[r.status] \o CRLF

HttpResponse_to_raw(r) ==
    HttpResponse_build_status_line(r) \o build_headers(r.headers) \o CRLF \o r.data

(***************************************************************************)
(* HttpRequest                                                             *)
(***************************************************************************)
HttpRequest(method, url, version, headers, body) ==
    [method |-> method, url |-> url, version |-> version, headers |-> headers,
     body |-> body]

HttpRequest_to_raw(r) ==
    (<<r.method, SP>> \o r.url \o <<SP, r.version>> \o CRLF)
        \o build_headers(r.headers) \o CRLF \o r.body

\* The result of a call: a value, or the exception it raised.
Returned(v) == [raised |-> FALSE, error |-> "", value |-> <<v>>]
Raised(e) == [raised |-> TRUE, error |-> e, value |-> <<>>]

RECURSIVE ParseHeaders(_, _)
\* for line in header_lines: key, value = line.split(": "); headers[key] = value
ParseHeaders(lines, items) ==
    IF lines = <<>> THEN Returned(items)
    ELSE LET kv == Split(lines[1], <<":", SP>>, -1)
         IN  IF Len(kv) # 2 THEN Raised("ValueError")
             ELSE ParseHeaders(Tail(lines), DictPut(items, kv[1], StrVal(kv[2])))

http_request_from_raw(raw_request) ==
    LET parts == Split(raw_request, CRLF \o CRLF, 1)
    IN  IF Len(parts) # 2 THEN Raised("ValueError")
        ELSE
        LET top_lines == Split(parts[1], CRLF, -1)
            first == Split(top_lines[1], <<SP>>, -1)
        IN  IF Len(first) # 3 THEN Raised("ValueError")
            ELSE
            LET headers == ParseHeaders(Tail(top_lines), <<>>)
                method == IF Len(first[1]) = 1 /\ first[1][1] \in HttpMethod
                          THEN first[1][1] ELSE "UNSUPPORTED"
                version == IF Len(first[3]) = 1 /\ first[3][1] \in HttpVersion
                           THEN first[3][1] ELSE "UNSUPPORTED"
            IN  IF headers.raised THEN headers
                ELSE Returned(HttpRequest(method, first[2], version,
                                          Dict(headers.value[1]), parts[2]))

\* int(s) of a status code text: the number that a decimal numeral spells; any
\* other text is a ValueError.  (The status codes explored carry no sign, padding
\* or leading zero.)
Numerals == 0..999

int(s) ==
    IF Len(s) = 1 /\ \E n \in Numerals : ToString(n) = s[1]
    THEN Returned(CHOOSE n \in Numerals : ToString(n) = s[1])
    ELSE Raised("ValueError")

\* HttpStatusCode(value): the member with that value; ValueError when there is none.
HttpStatusCode_of(value) ==
    IF \E name \in DOMAIN HttpStatusCode : HttpStatusCode[name] = value
    THEN Returned(CHOOSE name \in DOMAIN HttpStatusCode : HttpStatusCode[name] = value)
    ELSE Raised("ValueError")

http_response_from_raw(raw_response) ==
    LET parts == Split(raw_response, CRLF \o CRLF, 1)
    IN  IF Len(parts) # 2 THEN Raised("ValueError")
        ELSE
        LET top_lines == Split(parts[1], CRLF, -1)
            first == Split(top_lines[1], <<SP>>, 2)
        IN  IF Len(first) # 3 THEN Raised("ValueError")
            ELSE
            LET headers == ParseHeaders(Tail(top_lines), <<>>)
                version == IF Len(first[1]) = 1 /\ first[1][1] \in HttpVersion
                           THEN first[1][1] ELSE "UNSUPPORTED"
                number == int(first[2])
                status_code == IF number.raised THEN number
                               ELSE HttpStatusCode_of(number.value[1])
            IN  IF headers.raised THEN headers
                ELSE IF status_code.raised THEN status_code
                ELSE Returned(HttpResponse(version, status_code.value[1],
                                           Dict(headers.value[1]), parts[2]))

(***************************************************************************)
(* HttpResponses: the canned responses                                     *)
(***************************************************************************)
TIMEOUT_BODY == <<"REQUEST TIMED OUT.">>
NOT_FOUND_BODY == <<"NOT FOUND.">>
BAD_REQUEST_BODY == <<"BAD REQUEST.">>
SUCCESS_BODY == <<"SUCCESS.">>
METHOD_NOT_ALLOWED_BODY == <<"METHOD NOT ALLOWED">>

ContentLength(n) == Dict(<< <<<<"Content-Length">>, IntVal(n)>> >>)

\* Mutant: the timeout response built without its status (HttpResponse defaults to OK).
HttpResponses_TIMEOUT_DefaultStatus ==
    HttpResponse("HTTP/1.1", "OK", ContentLength(StrLen(TIMEOUT_BODY)), TIMEOUT_BODY)

HttpResponses_TIMEOUT ==
    HttpResponse("HTTP/1.1", "REQUEST_TIMED_OUT", ContentLength(StrLen(TIMEOUT_BODY)),
                 TIMEOUT_BODY)

HttpResponses_NOT_FOUND ==
    HttpResponse("HTTP/1.1", "NOT_FOUND", ContentLength(StrLen(NOT_FOUND_BODY)),
                 NOT_FOUND_BODY)

HttpResponses_BAD_REQUEST ==
    HttpResponse("HTTP/1.1", "BAD_REQUEST", ContentLength(StrLen(BAD_REQUEST_BODY)),
                 BAD_REQUEST_BODY)

HttpResponses_OK ==
    HttpResponse("HTTP/1.1", "OK", ContentLength(StrLen(SUCCESS_BODY)), SUCCESS_BODY)

HttpResponses_METHOD_NOT_ALLOWED ==
    HttpResponse("HTTP/1.1", "METHOD_NOT_ALLOWED",
                 ContentLength(StrLen(METHOD_NOT_ALLOWED_BODY)), METHOD_NOT_ALLOWED_BODY)

\* The class as its body leaves it when the module is imported.
HttpResponses_class ==
    [TIMEOUT |-> HttpResponses_TIMEOUT, NOT_FOUND |-> HttpResponses_NOT_FOUND,
     BAD_REQUEST |-> HttpResponses_BAD_REQUEST, OK |-> HttpResponses_OK,
     METHOD_NOT_ALLOWED |-> HttpResponses_METHOD_NOT_ALLOWED]

\* Mutant: to_raw() consumes the data of the response it encodes.
HttpResponse_after_to_raw_consumed(r) == [r EXCEPT !.data = <<>>]

\* The response object after its to_raw(): the f-strings read version, status,
\* headers and data and assign nothing.
HttpResponse_after_to_raw(r) == r

\* The class after send_response(response): a canned response is passed by
\* reference, so what to_raw() and send() did to the object is done to the class.
HttpResponses_after_send(response) ==
    [k \in DOMAIN HttpResponses |->
        IF HttpResponses[k] = response THEN HttpResponse_after_to_raw(response)
        ELSE HttpResponses[k]]

(***************************************************************************)
(* The content directory.  A path is the sequence of its segments; the     *)
(* request url is the same text (make_path prepends the content dir).      *)
(***************************************************************************)
Root == <<>>
Paths == {<<"/a">>, <<"/a", "/b">>}
Parent(p) == SubSeq(p, 1, Len(p) - 1)

Absent == [kind |-> "absent", data |-> <<>>]
Directory == [kind |-> "dir", data |-> <<>>]
File(data) == [kind |-> "file", data |-> data]

IsPrefix(p, q) == Len(p) <= Len(q) /\ SubSeq(q, 1, Len(p)) = p

\* Path.is_file() and Path.is_dir(): False, never an error, for what is not there.
is_file(f, p) == p \in Paths /\ f[p].kind = "file"
is_dir(f, p) == p = Root \/ (p \in Paths /\ f[p].kind = "dir")

Children(f, p) == {q \in Paths : Parent(q) = p /\ f[q].kind # "absent"}

\* os.linesep of the platform the server runs on (POSIX).
os_linesep == <<LF>>

RECURSIVE TextWrite(_)
\* Text-mode write (newline=None): every "\n" is written as os.linesep.
TextWrite(s) ==
    IF s = <<>> THEN <<>>
    ELSE (IF Head(s) = LF THEN os_linesep ELSE <<Head(s)>>) \o TextWrite(Tail(s))

RECURSIVE TextRead(_)
\* Text-mode read (universal newlines): "\r\n" and "\r" are read as "\n".
TextRead(d) ==
    IF d = <<>> THEN <<>>
    ELSE IF Head(d) = CR
         THEN IF Len(d) >= 2 /\ d[2] = LF
              THEN <<LF>> \o TextRead(SubSeq(d, 3, Len(d)))
              ELSE <<LF>> \o TextRead(Tail(d))
         ELSE <<Head(d)>> \o TextRead(Tail(d))

\* Path.read_text()
read_text(f, p) ==
    IF is_file(f, p) THEN Returned(TextRead(f[p].data))
    ELSE IF is_dir(f, p) THEN Raised("IsADirectoryError")
    ELSE Raised("FileNotFoundError")

\* Path.write_text(content): creates or truncates the file, then writes.
write_text(f, p, content) ==
    IF p \notin Paths \/ is_dir(f, p) THEN Raised("IsADirectoryError")
    ELSE IF ~is_dir(f, Parent(p))
         THEN Raised(IF is_file(f, Parent(p)) THEN "NotADirectoryError"
                     ELSE "FileNotFoundError")
    ELSE Returned([f EXCEPT ![p] = File(TextWrite(content))])

\* Path.unlink()
unlink(f, p) ==
    IF is_file(f, p) THEN Returned([f EXCEPT ![p] = Absent])
    ELSE IF is_dir(f, p) THEN Raised("IsADirectoryError")
    ELSE Raised("FileNotFoundError")

\* Path.rmdir(): only an empty directory can be removed.
rmdir(f, p) ==
    IF p \in Paths /\ is_dir(f, p)
    THEN IF Children(f, p) = {} THEN Returned([f EXCEPT ![p] = Absent])
         ELSE Raised("OSError")
    ELSE IF is_file(f, p) THEN Raised("NotADirectoryError")
    ELSE Raised("FileNotFoundError")

\* shutil.rmtree(path): the directory and everything under it.
rmtree(f, p) ==
    IF p \in Paths /\ is_dir(f, p)
    THEN Returned([q \in Paths |-> IF IsPrefix(p, q) THEN Absent ELSE f[q]])
    ELSE IF is_file(f, p) THEN Raised("NotADirectoryError")
    ELSE Raised("FileNotFoundError")

RECURSIVE mkdir(_, _)
\* Path.mkdir(parents=True, exist_ok=True)
mkdir(f, p) ==
    IF is_dir(f, p) THEN Returned(f)
    ELSE IF is_file(f, p) THEN Raised("FileExistsError")
    ELSE IF is_dir(f, Parent(p)) THEN Returned([f EXCEPT ![p] = Directory])
    ELSE IF is_file(f, Parent(p)) THEN Raised("NotADirectoryError")
    ELSE LET r == mkdir(f, Parent(p))
         IN  IF r.raised THEN r ELSE Returned([r.value[1] EXCEPT ![p] = Directory])

(***************************************************************************)
(* What clients send.                                                      *)
(***************************************************************************)
MethodTokens == {"GET", "PUT", "HEAD", "POST", "DELETE", "PATCH", "UNSUPPORTED"}
Bodies == {<<>>, <<"x">>, <<EACUTE>>, CRLF}
HeaderBlocks == {<<>>, <<"Host", ":", SP, "x">> \o CRLF}

\* A request as the wire protocol writes it.
RawRequest(method, url, headerBlock, body) ==
    (<<method, SP>> \o url \o <<SP, "HTTP/1.1">> \o CRLF) \o headerBlock \o CRLF \o body

WellFormed ==
    {RawRequest(m, u, hb, b) : m \in MethodTokens, u \in Paths, hb \in HeaderBlocks,
                               b \in Bodies}

Malformed ==
    { <<>>,                                                      \* the peer closed: an empty read
      <<"GET", SP, "/a", SP, "HTTP/1.1">> \o CRLF,               \* no blank line
      <<"GET", SP, "/a">> \o CRLF \o CRLF,                       \* two tokens in the request line
      <<"GET", SP, "/a", SP, "HTTP/1.1">> \o CRLF \o <<"Host">> \o CRLF \o CRLF }

ClientInputs == WellFormed \cup Malformed

\* The thread-per-connection server is explored with the requests for one path.
ConcurrentInputs ==
    {RawRequest(m, <<"/a">>, <<>>, <<"x">>) : m \in MethodTokens \ {"UNSUPPORTED"}}
        \cup {<<>>}

\* What the proxy's clients send: requests the upstream would know, one with a
\* method it would not, one with a header sent twice, and an empty read.
ProxyInputs ==
    { RawRequest("GET", <<"/a">>, <<>>, <<>>),
      RawRequest("PUT", <<"/a">>, <<"Host", ":", SP, "x">> \o CRLF, <<"x">>),
      RawRequest("PATCH", <<"/a">>, <<>>, <<>>),
      RawRequest("GET", <<"/a">>,
                 <<"A", ":", SP, "1">> \o CRLF \o <<"A", ":", SP, "2">> \o CRLF, <<>>),
      <<>> }

\* What the upstream answers, as the wire protocol writes it.
RawResponse(version, code, reason, headerBlock, data) ==
    (<<version, SP, code, SP>> \o reason \o CRLF) \o headerBlock \o CRLF \o data

UpstreamResponses ==
    { RawResponse("HTTP/1.1", "200", <<"OK">>, <<"Content-Length", ":", SP, "1">> \o CRLF, <<"x">>),
      RawResponse("HTTP/1.1", "404", <<"Not", SP, "Found">>, <<>>, <<>>),
      RawResponse("HTTP/1.1", "404", <<"NOT", SP, "FOUND">>, <<>>, <<>>),
      RawResponse("HTTP/1.0", "200", <<"OK">>, <<>>, <<>>),
      RawResponse("HTTP/1.1", "500", <<"Internal", SP, "Server", SP, "Error">>, <<>>, <<>>),
      <<>> }

InputsOf(kind) ==
    IF kind = "inline" THEN ClientInputs
    ELSE IF kind = "proxy" THEN ProxyInputs
    ELSE ConcurrentInputs

(***************************************************************************)
(* RequestHandler: one per accepted connection.                            *)
(*   pc       where handle() is; "returned" and "raised" are its two ends  *)
(*   request  the decoded request, <<>> for None                           *)
(*   response the response handed to send_response, <<>> before            *)
(*   events   what was done on the connection: "recv", "send", "close"     *)
(*   wire     the texts written to the connection                          *)
(*   calls    the content handler methods called                           *)
(*   raw      the text recv() returned; pre: the content directory then    *)
(*   conn     which accepted connection this is, 0 for none                *)
(*   upstream what was done on the proxy's destination socket; upwire the  *)
(*            texts written to it and upraw the text read from it          *)
(***************************************************************************)
EmptyFs == [p \in Paths |-> Absent]

FreeHandler ==
    [pc |-> "free", request |-> <<>>, response |-> <<>>, events |-> <<>>, wire |-> <<>>,
     calls |-> <<>>, timedOut |-> FALSE, error |-> "", raw |-> <<>>, pre |-> EmptyFs,
     conn |-> 0, upstream |-> <<>>, upwire |-> <<>>, upraw |-> <<>>]

RequestHandler(f) == [FreeHandler EXCEPT !.pc = "select", !.pre = f]

\* ProxyRequestHandler.__init__: the base constructor; the destination socket is
\* made and connected next.
ProxyRequestHandler(f) == [RequestHandler(f) EXCEPT !.pc = "connect"]

Raise(h, e) == [h EXCEPT !.pc = "raised", !.error = e]
Respond(h, response) == [h EXCEPT !.pc = "send", !.response = <<response>>]
Call(h, method, pc) == [h EXCEPT !.pc = pc, !.calls = Append(@, method)]

\* The handler's step: in the inline server handle() runs inside start(), so its
\* return resumes the accept loop and its exception leaves start().
StepShared(t, h, f, lw, class) ==
    /\ handlers' = [handlers EXCEPT ![t] = h]
    /\ fs' = f
    /\ lastWrite' = lw
    /\ listener' = IF serverKind = "inline" /\ h.pc = "raised" THEN "terminated"
                   ELSE IF serverKind = "inline" /\ h.pc = "returned" THEN "accept"
                   ELSE listener
    /\ HttpResponses' = class
    /\ UNCHANGED <<serverKind, accepted, message>>

\* A step that does nothing with a response object.
Step(t, h, f, lw) == StepShared(t, h, f, lw, HttpResponses)

InvalidMethod(h) == Raise(h, "InvalidHttpMethodError")

handle_get_request(h, request) ==
    IF request.method # "GET" THEN InvalidMethod(h)
    ELSE Call(h, "retrieve", "retrieve_is_file")

handle_put_request(h, request) ==
    IF request.method # "PUT" THEN InvalidMethod(h)
    ELSE Call(h, "replace", "replace_is_file")

handle_post_request(h, request) ==
    IF request.method # "POST" THEN InvalidMethod(h)
    ELSE Call(h, "create", "create_is_file")

handle_head_request(h, request) ==
    IF request.method # "HEAD" THEN InvalidMethod(h)
    ELSE Call(h, "exists", "exists_is_file")

handle_delete_request(h, request) ==
    IF request.method # "DELETE" THEN InvalidMethod(h)
    ELSE Call(h, "delete", "delete_is_file")

\* Mutant: a stub branch that sends nothing.
handle_unsupported_request_stub(h, request) == [h EXCEPT !.pc = "close"]

handle_unsupported_request(h, request) == Respond(h, HttpResponses.METHOD_NOT_ALLOWED)

\* Mutant: the proxy answers the client itself, without asking the upstream.
ProxyRequestHandler_handle_request_unforwarded(h, request) ==
    Respond(h, HttpResponses.OK)

\* ProxyRequestHandler._handle_request: every request, whatever its method, is
\* forwarded; the first thing __forward does is the send on the destination socket.
ProxyRequestHandler_handle_request(h, request) == [h EXCEPT !.pc = "forward_send"]

\* Mutant: the switch sends a PUT request to the GET branch.
handle_request_misrouted(h, request) ==
    CASE request.method = "GET" -> handle_get_request(h, request)
      [] request.method = "PUT" -> handle_get_request(h, request)
      [] request.method = "POST" -> handle_post_request(h, request)
      [] request.method = "HEAD" -> handle_head_request(h, request)
      [] request.method = "DELETE" -> handle_delete_request(h, request)
      [] OTHER -> handle_unsupported_request(h, request)

handle_request(h, request) ==
    CASE request.method = "GET" -> handle_get_request(h, request)
      [] request.method = "PUT" -> handle_put_request(h, request)
      [] request.method = "POST" -> handle_post_request(h, request)
      [] request.method = "HEAD" -> handle_head_request(h, request)
      [] request.method = "DELETE" -> handle_delete_request(h, request)
      [] OTHER -> handle_unsupported_request(h, request)

\* The response each branch builds from what the content handler returned.
get_response(content) ==
    IF content = <<>> THEN HttpResponses.NOT_FOUND
    ELSE HttpResponse("HTTP/1.1", "OK", ContentLength(StrLen(content[1])), content[1])

put_response(success) == IF success THEN HttpResponses.OK ELSE HttpResponses.NOT_FOUND

post_response(success) == IF success THEN HttpResponses.OK ELSE HttpResponses.BAD_REQUEST

\* Mutant: HEAD answered with the canned responses, which carry a body.
head_response_canned(success) ==
    IF success THEN HttpResponses.OK ELSE HttpResponses.NOT_FOUND

head_response(success) ==
    IF success THEN HttpResponse("HTTP/1.1", "OK", NoHeaders, <<>>)
    ELSE HttpResponse("HTTP/1.1", "NOT_FOUND", NoHeaders, <<>>)

delete_response(success) == IF success THEN HttpResponses.OK ELSE HttpResponses.NOT_FOUND

Url(h) == h.request[1].url
Body(h) == h.request[1].body

(***************************************************************************)
(* handle(): receive                                                       *)
(***************************************************************************)
\* select() returns nothing within the timeout: _receive_request returns None and
\* handle() hands the canned timeout response to send_response.
ReceiveTimeout(t) ==
    /\ handlers[t].pc = "select"
    /\ Step(t, Respond([handlers[t] EXCEPT !.timedOut = TRUE], HttpResponses.TIMEOUT),
            fs, lastWrite)

\* The connection is readable: one recv(), the text is decoded and dispatched by
\* method, up to the first call on the content directory.
\* Every request explored is shorter than the 8192 bytes one recv() returns, so
\* recv() delivers it whole.
recv_and_dispatch(h, raw) ==
    LET got == [h EXCEPT !.events = Append(@, "recv"), !.raw = raw]
        decoded == http_request_from_raw(raw)
    IN  IF decoded.raised THEN Raise(got, decoded.error)
        ELSE IF serverKind = "proxy"
             THEN ProxyRequestHandler_handle_request([got EXCEPT !.request = decoded.value],
                                                     decoded.value[1])
        ELSE handle_request([got EXCEPT !.request = decoded.value], decoded.value[1])

Receive(t) ==
    /\ handlers[t].pc = "select"
    /\ \E raw \in InputsOf(serverKind) :
          Step(t, recv_and_dispatch([handlers[t] EXCEPT !.pre = fs], raw), fs, lastWrite)

(***************************************************************************)
(* ContentHandler.retrieve and the rest of _handle_get_request             *)
(***************************************************************************)
RetrieveIsFile(t) ==
    /\ handlers[t].pc = "retrieve_is_file"
    /\ LET h == handlers[t]
       IN  Step(t, IF is_file(fs, Url(h)) THEN [h EXCEPT !.pc = "retrieve_read_text"]
                   ELSE Respond(h, get_response(<<>>)),
                fs, lastWrite)

RetrieveReadText(t) ==
    /\ handlers[t].pc = "retrieve_read_text"
    /\ LET h == handlers[t]
           r == read_text(fs, Url(h))
       IN  Step(t, IF r.raised THEN Raise(h, r.error) ELSE Respond(h, get_response(r.value)),
                fs, lastWrite)

(***************************************************************************)
(* ContentHandler.replace and the rest of _handle_put_request              *)
(***************************************************************************)
ReplaceIsFile(t) ==
    /\ handlers[t].pc = "replace_is_file"
    /\ LET h == handlers[t]
       IN  Step(t, IF is_file(fs, Url(h)) THEN [h EXCEPT !.pc = "replace_unlink"]
                   ELSE Respond(h, put_response(FALSE)),
                fs, lastWrite)

ReplaceUnlink(t) ==
    /\ handlers[t].pc = "replace_unlink"
    /\ LET h == handlers[t]
           r == unlink(fs, Url(h))
       IN  IF r.raised THEN Step(t, Raise(h, r.error), fs, lastWrite)
           ELSE Step(t, [h EXCEPT !.pc = "replace_write_text"], r.value[1], lastWrite)

ReplaceWriteText(t) ==
    /\ handlers[t].pc = "replace_write_text"
    /\ LET h == handlers[t]
           r == write_text(fs, Url(h), Body(h))
       IN  IF r.raised THEN Step(t, Raise(h, r.error), fs, lastWrite)
           ELSE Step(t, Respond(h, put_response(TRUE)), r.value[1],
                     [lastWrite EXCEPT ![Url(h)] = <<"replace", Body(h)>>])

(***************************************************************************)
(* ContentHandler.create and the rest of _handle_post_request              *)
(***************************************************************************)
CreateIsFile(t) ==
    /\ handlers[t].pc = "create_is_file"
    /\ LET h == handlers[t]
       IN  Step(t, IF is_file(fs, Url(h)) THEN Respond(h, post_response(FALSE))
                   ELSE [h EXCEPT !.pc = "create_mkdir"],
                fs, lastWrite)

CreateMkdir(t) ==
    /\ handlers[t].pc = "create_mkdir"
    /\ LET h == handlers[t]
           r == mkdir(fs, Parent(Url(h)))
       IN  IF r.raised THEN Step(t, Raise(h, r.error), fs, lastWrite)
           ELSE Step(t, [h EXCEPT !.pc = "create_write_text"], r.value[1], lastWrite)

CreateWriteText(t) ==
    /\ handlers[t].pc = "create_write_text"
    /\ LET h == handlers[t]
           r == write_text(fs, Url(h), Body(h))
       IN  IF r.raised THEN Step(t, Raise(h, r.error), fs, lastWrite)
           ELSE Step(t, Respond(h, post_response(TRUE)), r.value[1],
                     [lastWrite EXCEPT ![Url(h)] = <<"create", Body(h)>>])

(***************************************************************************)
(* ContentHandler.exists and the rest of _handle_head_request              *)
(***************************************************************************)
ExistsIsFile(t) ==
    /\ handlers[t].pc = "exists_is_file"
    /\ LET h == handlers[t]
       IN  Step(t, Respond(h, head_response(is_file(fs, Url(h)))), fs, lastWrite)

(***************************************************************************)
(* ContentHandler.delete and the rest of _handle_delete_request            *)
(***************************************************************************)
Deleted(lw, f, g) == [q \in Paths |-> IF f[q] # g[q] THEN <<"delete">> ELSE lw[q]]

DeleteIsFile(t) ==
    /\ handlers[t].pc = "delete_is_file"
    /\ LET h == handlers[t]
       IN  Step(t, [h EXCEPT !.pc = IF is_file(fs, Url(h)) THEN "delete_unlink"
                                    ELSE "delete_is_dir"],
                fs, lastWrite)

\* Mutant: delete() reports success without removing the file.
DeleteUnlink_KeepsFile(t) ==
    /\ handlers[t].pc = "delete_unlink"
    /\ LET h == handlers[t]
       IN  Step(t, Respond(h, delete_response(TRUE)), fs,
                [lastWrite EXCEPT ![Url(h)] = <<"delete">>])

DeleteUnlink(t) ==
    /\ handlers[t].pc = "delete_unlink"
    /\ LET h == handlers[t]
           r == unlink(fs, Url(h))
       IN  IF r.raised THEN Step(t, Raise(h, r.error), fs, lastWrite)
           ELSE Step(t, Respond(h, delete_response(TRUE)), r.value[1],
                     Deleted(lastWrite, fs, r.value[1]))

DeleteIsDir(t) ==
    /\ handlers[t].pc = "delete_is_dir"
    /\ LET h == handlers[t]
       IN  Step(t, IF is_dir(fs, Url(h)) THEN [h EXCEPT !.pc = "delete_rmdir"]
                   ELSE Respond(h, delete_response(FALSE)),
                fs, lastWrite)

DeleteRmdir(t) ==
    /\ handlers[t].pc = "delete_rmdir"
    /\ LET h == handlers[t]
           r == rmdir(fs, Url(h))
       IN  IF r.raised THEN Step(t, Raise(h, r.error), fs, lastWrite)
           ELSE Step(t, [h EXCEPT !.pc = "delete_rmtree"], r.value[1], lastWrite)

DeleteRmtree(t) ==
    /\ handlers[t].pc = "delete_rmtree"
    /\ LET h == handlers[t]
           r == rmtree(fs, Url(h))
       IN  IF r.raised THEN Step(t, Raise(h, r.error), fs, lastWrite)
           ELSE Step(t, Respond(h, delete_response(TRUE)), r.value[1],
                     Deleted(lastWrite, fs, r.value[1]))

(***************************************************************************)
(* ProxyRequestHandler: the connect of __init__, and __forward             *)
(***************************************************************************)
Upstream(h, event) == [h EXCEPT !.upstream = Append(@, event)]

\* self.destination.connect(destination), in the thread of the connection, before
\* handle() is called: it connects, or raises and ends the thread.
Connect(t) ==
    /\ handlers[t].pc = "connect"
    /\ \E ok \in BOOLEAN :
          Step(t, IF ok THEN [Upstream(handlers[t], "connect") EXCEPT !.pc = "select"]
                  ELSE Raise(Upstream(handlers[t], "connect failed"),
                             "ConnectionRefusedError"),
               fs, lastWrite)

\* self.destination.send(request.to_raw().encode())
ForwardSend(t) ==
    /\ handlers[t].pc = "forward_send"
    /\ \E ok \in BOOLEAN :
          LET h == handlers[t]
          IN  Step(t, IF ok
                      THEN [Upstream(h, "send") EXCEPT
                               !.pc = "forward_recv",
                               !.upwire = Append(@, HttpRequest_to_raw(h.request[1]))]
                      ELSE Raise(Upstream(h, "send failed"), "BrokenPipeError"),
                   fs, lastWrite)

\* self.destination.recv(8192).decode(), then http_response_from_raw and the
\* return to _handle_request, which hands the response to send_response.
forward_recv(h, raw_response) ==
    LET got == [Upstream(h, "recv") EXCEPT !.upraw = raw_response]
        decoded == http_response_from_raw(raw_response)
    IN  IF decoded.raised THEN Raise(got, decoded.error)
        ELSE Respond(got, decoded.value[1])

ForwardRecv(t) ==
    /\ handlers[t].pc = "forward_recv"
    /\ \/ \E raw_response \in UpstreamResponses :
             Step(t, forward_recv(handlers[t], raw_response), fs, lastWrite)
       \/ Step(t, Raise(Upstream(handlers[t], "recv failed"), "ConnectionResetError"),
               fs, lastWrite)

(***************************************************************************)
(* send_response, and the close() that ends handle()                       *)
(***************************************************************************)
\* send() of these short texts to a peer that is still connected succeeds.
\* Mutant: the connection is kept alive, the handler waits for a next request.
send_response_keep_alive(h) ==
    [h EXCEPT !.pc = "select",
              !.events = Append(@, "send"),
              !.wire = Append(@, HttpResponse_to_raw(h.response[1]))]

send_response(h) ==
    [h EXCEPT !.pc = "close",
              !.events = Append(@, "send"),
              !.wire = Append(@, HttpResponse_to_raw(h.response[1]))]

SendResponse(t) ==
    /\ handlers[t].pc = "send"
    /\ StepShared(t, send_response(handlers[t]), fs, lastWrite,
                  HttpResponses_after_send(handlers[t].response[1]))

close(h) == [h EXCEPT !.pc = "returned", !.events = Append(@, "close")]

Close(t) ==
    /\ handlers[t].pc = "close"
    /\ Step(t, close(handlers[t]), fs, lastWrite)

(***************************************************************************)
(* ShoddyHttpServer.start(): the accept loop.  The inline server runs the  *)
(* handler in slot 1 before it accepts again; the concurrent server starts *)
(* a thread per connection, in any slot no running thread holds.           *)
(***************************************************************************)
Finished(h) == h.pc \in {"free", "returned", "raised"}

NewHandler ==
    [(IF serverKind = "proxy" THEN ProxyRequestHandler(fs) ELSE RequestHandler(fs))
        EXCEPT !.conn = accepted + 1]

\* Mutant: accept() returns again while the inline handler is still running.
Accept_WhileHandling ==
    /\ listener \in {"accept", "handling"}
    /\ accepted < MaxConns
    /\ \E t \in Slots :
          /\ IF serverKind = "inline" THEN t = 1 ELSE Finished(handlers[t])
          /\ handlers' = [handlers EXCEPT ![t] = NewHandler]
    /\ accepted' = accepted + 1
    /\ listener' = IF serverKind = "inline" THEN "handling" ELSE "accept"
    /\ UNCHANGED <<serverKind, fs, lastWrite, message, HttpResponses>>

\* Mutant: every server, the threaded ones too, runs handle() inside the loop.
Accept_Inline ==
    /\ listener = "accept"
    /\ accepted < MaxConns
    /\ \E t \in Slots :
          /\ IF serverKind = "inline" THEN t = 1 ELSE Finished(handlers[t])
          /\ handlers' = [handlers EXCEPT ![t] = NewHandler]
    /\ accepted' = accepted + 1
    /\ listener' = "handling"
    /\ UNCHANGED <<serverKind, fs, lastWrite, message, HttpResponses>>

Accept ==
    /\ listener = "accept"
    /\ accepted < MaxConns
    /\ \E t \in Slots :
          /\ IF serverKind = "inline" THEN t = 1 ELSE Finished(handlers[t])
          /\ handlers' = [handlers EXCEPT ![t] = NewHandler]
    /\ accepted' = accepted + 1
    /\ listener' = IF serverKind = "inline" THEN "handling" ELSE "accept"
    /\ UNCHANGED <<serverKind, fs, lastWrite, message, HttpResponses>>

(***************************************************************************)
(* The message model alone: a request or a response is constructed, to_raw *)
(* makes its text, and http_request_from_raw / http_response_from_raw      *)
(* decodes that text.                                                      *)
(***************************************************************************)
HeaderKeys == {<<"Host">>, <<"Content-Length">>, <<"A">>}
HeaderValues == {StrVal(<<"x">>), IntVal(18), StrVal(<<"a", ":", SP, "b">>)}

\* The dicts of n entries: the keys of a dict are distinct.
HeaderItems(n) ==
    {items \in [1..n -> HeaderKeys \X HeaderValues] :
        \A i, j \in 1..n : i # j => items[i][1] # items[j][1]}

HeaderMappings ==
    {NoHeaders} \cup {Dict(items) : items \in UNION {HeaderItems(n) : n \in 0..MaxHeaders}}

Urls == {<<"/a">>, <<"/a", SP, "b">>}
MessageBodies == {<<>>, <<"x">>, CRLF \o CRLF \o <<"x">>}

Requests ==
    {HttpRequest(m, u, v, hd, b) :
        m \in HttpMethod, u \in Urls, v \in HttpVersion, hd \in HeaderMappings,
        b \in MessageBodies}

Responses ==
    {HttpResponse(v, st, hd, d) :
        v \in HttpVersion, st \in DOMAIN HttpStatusCode, hd \in HeaderMappings,
        d \in MessageBodies}

NoMessage ==
    [stage |-> "none", kind |-> "none", object |-> <<>>, raw |-> <<>>, decoded |-> <<>>]

Message(kind, object) ==
    [stage |-> "constructed", kind |-> kind, object |-> <<object>>, raw |-> <<>>,
     decoded |-> <<>>]

ServerUnchanged ==
    UNCHANGED <<serverKind, listener, accepted, fs, handlers, lastWrite, HttpResponses>>

\* HttpRequest(method=, url=, version=, headers=, body=)
ConstructRequest ==
    /\ message.stage = "none"
    /\ \E r \in Requests : message' = Message("request", r)
    /\ ServerUnchanged

\* HttpResponse(version=, status=, headers=, data=)
ConstructResponse ==
    /\ message.stage = "none"
    /\ \E r \in Responses : message' = Message("response", r)
    /\ ServerUnchanged

\* x.to_raw()
ToRaw ==
    /\ message.stage = "constructed"
    /\ message' =
          [message EXCEPT
              !.stage = "encoded",
              !.raw = <<IF message.kind = "request"
                        THEN HttpRequest_to_raw(message.object[1])
                        ELSE HttpResponse_to_raw(message.object[1])>>]
    /\ ServerUnchanged

\* http_request_from_raw(raw) or http_response_from_raw(raw): the object it
\* returns, or the exception it raises.
FromRaw ==
    /\ message.stage = "encoded"
    /\ message' =
          [message EXCEPT
              !.stage = "decoded",
              !.decoded = <<IF message.kind = "request"
                            THEN http_request_from_raw(message.raw[1])
                            ELSE http_response_from_raw(message.raw[1])>>]
    /\ ServerUnchanged

InitCodec ==
    /\ serverKind = "none"
    /\ listener = "none"
    /\ accepted = 0
    /\ fs = EmptyFs
    /\ handlers = [t \in Slots |-> FreeHandler]
    /\ lastWrite = [p \in Paths |-> <<>>]
    /\ HttpResponses = HttpResponses_class
    /\ message = NoMessage

NextCodec ==
    \/ ConstructRequest
    \/ ConstructResponse
    \/ ToRaw
    \/ FromRaw

SpecCodec == InitCodec /\ [][NextCodec]_vars

(***************************************************************************)
(* The content directory at start: any tree of files and directories.      *)
(***************************************************************************)
Nodes == {Absent, Directory} \cup {File(TextWrite(b)) : b \in Bodies}

WellFormedFs(f) ==
    \A p \in Paths : f[p].kind # "absent" => is_dir(f, Parent(p))

InitCommon ==
    /\ listener = "accept"
    /\ accepted = 0
    /\ fs \in {f \in [Paths -> Nodes] : WellFormedFs(f)}
    /\ handlers = [t \in Slots |-> FreeHandler]
    /\ lastWrite = [p \in Paths |-> <<>>]
    /\ HttpResponses = HttpResponses_class
    /\ message = NoMessage

Init == serverKind = "inline" /\ InitCommon

InitConcurrent == serverKind = "concurrent" /\ InitCommon

\* The proxy never calls its content handler: it is explored over one content
\* directory, the empty one.
InitProxy == serverKind = "proxy" /\ InitCommon /\ fs = EmptyFs

Next ==
    \/ Accept
    \/ \E t \in Slots :
          \/ ReceiveTimeout(t)
          \/ Receive(t)
          \/ RetrieveIsFile(t)
          \/ RetrieveReadText(t)
          \/ ReplaceIsFile(t)
          \/ ReplaceUnlink(t)
          \/ ReplaceWriteText(t)
          \/ CreateIsFile(t)
          \/ CreateMkdir(t)
          \/ CreateWriteText(t)
          \/ ExistsIsFile(t)
          \/ DeleteIsFile(t)
          \/ DeleteUnlink(t)
          \/ DeleteIsDir(t)
          \/ DeleteRmdir(t)
          \/ DeleteRmtree(t)
          \/ SendResponse(t)
          \/ Close(t)

\* The single-threaded server.
Spec == Init /\ [][Next]_vars

\* The thread-per-connection server.
SpecConcurrent == InitConcurrent /\ [][Next]_vars

\* The proxy: a thread per connection, each running a ProxyRequestHandler.
NextProxy ==
    \/ Accept
    \/ \E t \in Slots :
          \/ Connect(t)
          \/ ReceiveTimeout(t)
          \/ Receive(t)
          \/ ForwardSend(t)
          \/ ForwardRecv(t)
          \/ SendResponse(t)
          \/ Close(t)

SpecProxy == InitProxy /\ [][NextProxy]_vars

TypeOK ==
    /\ serverKind \in {"inline", "concurrent", "proxy", "none"}
    /\ listener \in {"accept", "handling", "terminated", "none"}
    /\ accepted \in 0..MaxConns
    /\ WellFormedFs(fs)
    /\ \A t \in Slots : Len(handlers[t].request) <= 1 /\ Len(handlers[t].response) <= 1

(***************************************************************************)
(* Properties                                                              *)
(***************************************************************************)
Count(seq, e) == Cardinality({i \in 1..Len(seq) : seq[i] = e})

Done(h) == h.pc \in {"returned", "raised"}
Handled(h, method) == h.request # <<>> /\ h.request[1].method = method

\* The bytes of the canned responses, as the wire protocol spells them.
CannedWire(code, reason, length, body) ==
    <<"HTTP/1.1", SP, code, SP>> \o reason
        \o <<CR, LF, "Content-Length", ":", SP, length, CR, LF, CR, LF, body>>

TimeoutWire == CannedWire("408", <<"Request", SP, "Timed", SP, "Out">>, "18", "REQUEST TIMED OUT.")
NotFoundWire == CannedWire("404", <<"Not", SP, "Found">>, "10", "NOT FOUND.")
BadRequestWire == CannedWire("300", <<"Bad", SP, "Request">>, "12", "BAD REQUEST.")
OkWire == CannedWire("200", <<"OK">>, "8", "SUCCESS.")
MethodNotAllowedWire ==
    CannedWire("405", <<"Method", SP, "Not", SP, "Allowed">>, "18", "METHOD NOT ALLOWED")

\* C1: whenever handle() has ended, by returning or by an exception, the client
\* connection has been closed exactly once.
C1_ClosedExactlyOnce ==
    \A t \in Slots :
        Done(handlers[t]) => Count(handlers[t].events, "close") = 1

\* C2: a connection whose handling failed never ends the accept loop: start() is
\* still accepting or handling.
C2_AcceptLoopSurvives ==
    (\E t \in Slots : handlers[t].pc = "raised") => listener # "terminated"

\* C3: a handler whose wait for data timed out never receives, decodes, dispatches
\* or calls the content handler; what it sends is the canned 408 response and
\* nothing else, and it then closes the connection and returns.
C3_TimeoutResponse ==
    \A t \in Slots :
        LET h == handlers[t]
        IN  h.timedOut =>
              /\ h.request = <<>>
              /\ h.calls = <<>>
              /\ fs = h.pre
              /\ h.pc \in {"send", "close", "returned"}
              /\ h.pc = "send" => h.events = <<>> /\ h.wire = <<>>
              /\ h.pc = "close" => h.events = <<"send">> /\ h.wire = <<TimeoutWire>>
              /\ h.pc = "returned" =>
                    h.events = <<"send", "close">> /\ h.wire = <<TimeoutWire>>

C3_Witness ==
    \E t \in Slots : handlers[t].timedOut /\ handlers[t].pc = "returned"

\* C4: on every connection the handler receives at most once, then sends at most
\* once, then closes; nothing follows the close.
C4_EventOrder ==
    \A t \in Slots :
        /\ handlers[t].events \in
              { <<>>, <<"recv">>, <<"recv", "send">>, <<"recv", "send", "close">>,
                <<"send">>, <<"send", "close">> }
        /\ Len(handlers[t].wire) = Count(handlers[t].events, "send")

C4_Witness ==
    \E t \in Slots : handlers[t].events = <<"recv", "send", "close">>

\* C5: a GET for a path that holds a file ends with a 200 response whose
\* Content-Length is the byte length of the file's content and whose body is that
\* content; a GET for any other path ends with the canned 404.
C5_Get ==
    \A t \in Slots :
        LET h == handlers[t]
            node == h.pre[Url(h)]
        IN  (Done(h) /\ Handled(h, "GET")) =>
              /\ h.pc = "returned"
              /\ IF node.kind = "file"
                 THEN /\ h.response[1].status = "OK"
                      /\ h.response[1].headers = ContentLength(ByteLen(node.data))
                      /\ h.response[1].data = node.data
                 ELSE h.wire = <<NotFoundWire>>

\* C6: a POST to a path that holds a file ends with the canned 300; a POST to a
\* path where nothing is (and under which a file can be made) ends with the canned
\* 200, and a GET of a path whose last change was such a POST ends with a 200
\* response whose body is the posted body.
C6_Post ==
    \A t \in Slots :
        LET h == handlers[t]
            u == Url(h)
        IN  /\ (Done(h) /\ Handled(h, "POST") /\ h.pre[u].kind = "file") =>
                  h.pc = "returned" /\ h.wire = <<BadRequestWire>>
            /\ (Done(h) /\ Handled(h, "POST") /\ h.pre[u].kind = "absent"
                  /\ ~is_file(h.pre, Parent(u))) =>
                  h.pc = "returned" /\ h.wire = <<OkWire>>
            /\ (Done(h) /\ Handled(h, "GET") /\ Len(lastWrite[u]) = 2
                  /\ lastWrite[u][1] = "create") =>
                  /\ h.pc = "returned"
                  /\ h.response[1].status = "OK"
                  /\ h.response[1].data = lastWrite[u][2]

\* C7: a PUT to a path that holds no file ends with the canned 404 and leaves the
\* content directory as it was; a PUT to a path that holds a file ends with the
\* canned 200, and a GET of a path whose last change was such a PUT ends with a
\* 200 response whose body is the PUT body.
C7_Put ==
    \A t \in Slots :
        LET h == handlers[t]
            u == Url(h)
        IN  /\ (Done(h) /\ Handled(h, "PUT") /\ h.pre[u].kind # "file") =>
                  h.pc = "returned" /\ h.wire = <<NotFoundWire>> /\ fs = h.pre
            /\ (Done(h) /\ Handled(h, "PUT") /\ h.pre[u].kind = "file") =>
                  h.pc = "returned" /\ h.wire = <<OkWire>>
            /\ (Done(h) /\ Handled(h, "GET") /\ Len(lastWrite[u]) = 2
                  /\ lastWrite[u][1] = "replace") =>
                  /\ h.pc = "returned"
                  /\ h.response[1].status = "OK"
                  /\ h.response[1].data = lastWrite[u][2]

\* C8: a DELETE of a path that holds a file ends with the canned 200 and the file
\* gone; a GET of a path whose last change was a DELETE ends with the canned 404;
\* a DELETE of a path where nothing is ends with the canned 404.
C8_Delete ==
    \A t \in Slots :
        LET h == handlers[t]
            u == Url(h)
        IN  /\ (Done(h) /\ Handled(h, "DELETE") /\ h.pre[u].kind = "file") =>
                  /\ h.pc = "returned"
                  /\ h.wire = <<OkWire>>
                  /\ fs[u] = Absent
                  /\ lastWrite[u] = <<"delete">>
            /\ (Done(h) /\ Handled(h, "DELETE") /\ h.pre[u].kind = "absent") =>
                  h.pc = "returned" /\ h.wire = <<NotFoundWire>>
            /\ (Done(h) /\ Handled(h, "GET") /\ lastWrite[u] = <<"delete">>) =>
                  h.pc = "returned" /\ h.wire = <<NotFoundWire>>

C8_Witness ==
    \E t \in Slots :
        /\ Handled(handlers[t], "GET")
        /\ handlers[t].pc = "returned"
        /\ lastWrite[Url(handlers[t])] = <<"delete">>

\* C9: a HEAD request calls exists() and nothing else on the content handler,
\* leaves the content directory as it was, and its response has an empty body and
\* no headers, with status 200 when the path holds a file and 404 otherwise.
C9_Head ==
    \A t \in Slots :
        LET h == handlers[t]
            exists == h.pre[Url(h)].kind = "file"
        IN  Handled(h, "HEAD") =>
              /\ h.pc # "raised"
              /\ h.calls = <<"exists">>
              /\ fs = h.pre
              /\ h.response # <<>> =>
                    /\ h.response[1].status = (IF exists THEN "OK" ELSE "NOT_FOUND")
                    /\ h.response[1].data = <<>>
              /\ h.pc = "returned" =>
                    h.wire = << <<"HTTP/1.1", SP>>
                                  \o (IF exists THEN <<"200", SP, "OK">>
                                      ELSE <<"404", SP, "Not", SP, "Found">>)
                                  \o <<CR, LF, CR, LF>> >>

C9_Witness ==
    \E t \in Slots :
        /\ Handled(handlers[t], "HEAD")
        /\ handlers[t].pc = "returned"
        /\ handlers[t].pre[Url(handlers[t])].kind = "file"
        /\ handlers[t].pre[Url(handlers[t])].data # <<>>

\* C10: a well-formed request whose method token is none of GET, PUT, HEAD, POST,
\* DELETE decodes, without an exception, to a request with method UNSUPPORTED;
\* the handler calls nothing on the content handler, leaves the content directory
\* as it was and answers with the canned 405.
UnsupportedRequests ==
    {RawRequest(m, u, hb, b) :
        m \in MethodTokens \ {"GET", "PUT", "HEAD", "POST", "DELETE"},
        u \in Paths, hb \in HeaderBlocks, b \in Bodies}

C10_Unsupported ==
    \A t \in Slots :
        LET h == handlers[t]
        IN  ("recv" \in {h.events[i] : i \in 1..Len(h.events)}
               /\ h.raw \in UnsupportedRequests) =>
              /\ h.pc \in {"send", "close", "returned"}
              /\ Handled(h, "UNSUPPORTED")
              /\ h.calls = <<>>
              /\ fs = h.pre
              /\ h.response = <<HttpResponses_METHOD_NOT_ALLOWED>>
              /\ h.pc = "send" => h.wire = <<>>
              /\ h.pc \in {"close", "returned"} => h.wire = <<MethodNotAllowedWire>>

C10_Witness ==
    \E t \in Slots :
        /\ handlers[t].raw \in UnsupportedRequests
        /\ handlers[t].pc = "returned"
        /\ handlers[t].wire = <<MethodNotAllowedWire>>

\* C11: a request that cannot be decoded (an empty read, no blank line, a request
\* line without three tokens, a header line without ": ") never ends handle() with
\* an exception; the handler answers it with the canned 405 and nothing else.
C11_UndecodableAnswered405 ==
    \A t \in Slots :
        LET h == handlers[t]
        IN  (h.events # <<>> /\ h.events[1] = "recv" /\ h.raw \in Malformed) =>
              /\ h.pc # "raised"
              /\ h.pc = "returned" => h.wire = <<MethodNotAllowedWire>>

SupportedMessage(m) ==
    /\ m.object[1].version # "UNSUPPORTED"
    /\ m.kind = "request" => m.object[1].method # "UNSUPPORTED"

\* C12: a constructed request or response whose method and version are supported
\* decodes, from its to_raw() text, to an object equal to it in every field: the
\* same url, the same headers (None stays None, values and order kept) and body.
C12_RoundTrip ==
    (message.stage = "decoded" /\ SupportedMessage(message)) =>
        /\ ~message.decoded[1].raised
        /\ message.decoded[1].value = message.object

\* C13: what the proxy writes to the upstream connection is the text it received
\* from the client, for every well-formed request whatever its method.
C13_ForwardedVerbatim ==
    \A t \in Slots :
        LET h == handlers[t]
        IN  h.upwire # <<>> => h.upwire = <<h.raw>>

\* C14: when the text read from upstream decodes, what the proxy sends to the
\* client is that text, unchanged.
C14_RelayedVerbatim ==
    \A t \in Slots :
        LET h == handlers[t]
        IN  (h.upraw # <<>> /\ h.wire # <<>>) => h.wire = <<h.upraw>>

\* The last thing done on the destination socket raised.
UpstreamFailed(h) ==
    h.upstream # <<>>
        /\ h.upstream[Len(h.upstream)] \in {"connect failed", "send failed", "recv failed"}

\* C15: a proxy handler whose connect, send or recv on the upstream socket failed
\* has sent nothing to the client and has closed the client connection.
C15_UpstreamFailureCloses ==
    \A t \in Slots :
        LET h == handlers[t]
        IN  UpstreamFailed(h) =>
              /\ h.wire = <<>>
              /\ Count(h.events, "close") = 1

\* A connection that was accepted and has not been closed.
Open(h) == h.pc # "free" /\ Count(h.events, "close") = 0

\* C16: in the inline server accept() returns a further connection only when no
\* accepted connection is still open, and at every moment at most one accepted
\* connection is open (accepted and not yet closed).
C16_InlineOneAtATime ==
    /\ [](Cardinality({t \in Slots : Open(handlers[t])}) <= 1)
    /\ [][accepted' = accepted + 1 => \A t \in Slots : ~Open(handlers[t])]_vars

C16_Witness ==
    /\ accepted = 2
    /\ \E t \in Slots : handlers[t].conn = 2 /\ handlers[t].pc = "select"

\* C17: in the concurrent server start() is always at accept(), never inside a
\* handler; every accepted connection is held by one thread of its own; and a
\* further connection can be accepted whatever the earlier handlers are doing,
\* waiting for their request included.
C17_ConcurrentAccept ==
    /\ listener = "accept"
    /\ \A t \in Slots : handlers[t].pc # "free" => handlers[t].conn \in 1..accepted
    /\ \A t, u \in Slots :
          (t # u /\ handlers[t].pc # "free" /\ handlers[u].pc # "free") =>
              handlers[t].conn # handlers[u].conn
    /\ accepted > 0 => Cardinality({t \in Slots : handlers[t].conn = accepted}) = 1
    /\ (accepted < MaxConns /\ \E t \in Slots : Finished(handlers[t])) => ENABLED Accept

C17_Witness ==
    \E t, u \in Slots :
        /\ handlers[t].conn = 1 /\ handlers[t].pc = "select"
        /\ handlers[u].conn = 3 /\ handlers[u].pc = "select"

\* The status lines, as the wire protocol spells them.
StatusWire ==
    [OK |-> <<"200", SP, "OK">>,
     NOT_MODIFIED |-> <<"304", SP, "Not", SP, "Modified">>,
     BAD_REQUEST |-> <<"300", SP, "Bad", SP, "Request">>,
     NOT_FOUND |-> <<"404", SP, "Not", SP, "Found">>,
     METHOD_NOT_ALLOWED |-> <<"405", SP, "Method", SP, "Not", SP, "Allowed">>,
     REQUEST_TIMED_OUT |-> <<"408", SP, "Request", SP, "Timed", SP, "Out">>]

StartsWith(s, prefix) == Len(prefix) <= Len(s) /\ SubSeq(s, 1, Len(prefix)) = prefix

\* C18: the names of HttpStatusCode and of HttpStatusMessage are the same names,
\* no two of them share a code, and the text of every response, whatever its
\* status, begins with the status line of that status.
C18_StatusTable ==
    /\ DOMAIN HttpStatusCode = DOMAIN HttpStatusMessage
    /\ \A a, b \in DOMAIN HttpStatusCode : a # b => HttpStatusCode[a] # HttpStatusCode[b]
    /\ (message.kind = "response" /\ message.stage \in {"encoded", "decoded"}) =>
          StartsWith(message.raw[1],
                     <<message.object[1].version, SP>>
                        \o StatusWire[message.object[1].status] \o CRLF)

C18_Witness ==
    /\ message.kind = "response"
    /\ message.stage = "encoded"
    /\ message.object[1].status = "NOT_MODIFIED"

RECURSIVE HeaderBlock(_)
\* Every header as "key: value" followed by \r\n, in the order of the mapping.
HeaderBlock(items) ==
    IF items = <<>> THEN <<>>
    ELSE items[1][1] \o <<":", SP>>
            \o (IF items[1][2][1] = "int" THEN <<ToString(items[1][2][2])>>
                ELSE items[1][2][2])
            \o <<CR, LF>> \o HeaderBlock(Tail(items))

StartLine(m) ==
    IF m.kind = "request"
    THEN <<m.object[1].method, SP>> \o m.object[1].url \o <<SP, m.object[1].version>>
    ELSE <<m.object[1].version, SP>> \o StatusWire[m.object[1].status]

\* C19: the text of a request or response is its start line and \r\n, then every
\* header as "key: value" and \r\n in the order of the mapping, then one \r\n,
\* then the body; with headers None or empty the start line's \r\n is followed at
\* once by that one \r\n and the body.
C19_EncodeFormat ==
    message.stage \in {"encoded", "decoded"} =>
        LET x == message.object[1]
            body == IF message.kind = "request" THEN x.body ELSE x.data
        IN  /\ message.raw[1] =
                  StartLine(message) \o <<CR, LF>> \o HeaderBlock(x.headers.items)
                      \o <<CR, LF>> \o body
            /\ (x.headers.isNone \/ x.headers.items = <<>>) =>
                  message.raw[1] = StartLine(message) \o <<CR, LF, CR, LF>> \o body

C19_Witness ==
    /\ message.stage = "encoded"
    /\ message.object[1].headers = Dict(<<>>)
    /\ message.raw[1] # <<>>

\* The content handler method each branch calls, and the method of that branch.
BranchOf ==
    [retrieve |-> "GET", replace |-> "PUT", create |-> "POST", exists |-> "HEAD",
     delete |-> "DELETE"]

\* C20: no handler ever raises InvalidHttpMethodError: whenever a branch has
\* called the content handler, the request's method is the method of that branch.
C20_DispatchAgrees ==
    \A t \in Slots :
        LET h == handlers[t]
        IN  /\ h.error # "InvalidHttpMethodError"
            /\ h.request # <<>> =>
                  IF h.request[1].method = "UNSUPPORTED" THEN h.calls = <<>>
                  ELSE /\ Len(h.calls) = 1
                       /\ BranchOf[h.calls[1]] = h.request[1].method

C20_Witness ==
    \E t \in Slots :
        /\ handlers[t].calls = <<"replace">>
        /\ handlers[t].pc = "returned"

\* C21: a DELETE of a path that holds a directory, empty or not, ends with the
\* canned 200, and nothing is left at that path or below it.
C21_DeleteDirectory ==
    \A t \in Slots :
        LET h == handlers[t]
            u == Url(h)
        IN  (Done(h) /\ Handled(h, "DELETE") /\ h.pre[u].kind = "dir") =>
              /\ h.pc = "returned"
              /\ h.wire = <<OkWire>>
              /\ \A q \in Paths : IsPrefix(u, q) => fs[q] = Absent

\* The lines of the head section after the first one.
HeadLines(raw) == Tail(Split(Split(raw, <<CR, LF, CR, LF>>, 1)[1], <<CR, LF>>, -1))

\* A line holds the separator ": " somewhere.
HasSeparator(line) == \E i \in 1..Len(line) - 1 : line[i] = ":" /\ line[i + 1] = SP

\* C22: a text whose start line decodes is decoded without an error exactly when
\* every later line of its head section holds ": ": it fails exactly when some
\* such line holds none.
C22_HeaderDecode ==
    (message.stage = "decoded" /\ message.kind = "request"
        /\ Len(Split(Split(message.raw[1], <<CR, LF>>, 1)[1], <<SP>>, -1)) = 3) =>
        LET lines == HeadLines(message.raw[1])
        IN  message.decoded[1].raised <=>
                \E i \in 1..Len(lines) : ~HasSeparator(lines[i])

\* The canned responses as HttpResponses builds them: status, length, body.
CannedBuilt ==
    [TIMEOUT |-> <<"REQUEST_TIMED_OUT", 18, "REQUEST TIMED OUT.">>,
     NOT_FOUND |-> <<"NOT_FOUND", 10, "NOT FOUND.">>,
     BAD_REQUEST |-> <<"BAD_REQUEST", 12, "BAD REQUEST.">>,
     OK |-> <<"OK", 8, "SUCCESS.">>,
     METHOD_NOT_ALLOWED |-> <<"METHOD_NOT_ALLOWED", 18, "METHOD NOT ALLOWED">>]

\* C23: in every state of the concurrent server each canned response has the
\* version, status, Content-Length header and body it was built with, and its
\* Content-Length is the length of its body, whatever has been sent so far.
C23_CannedImmutable ==
    /\ DOMAIN HttpResponses = DOMAIN CannedBuilt
    /\ \A k \in DOMAIN CannedBuilt :
          /\ HttpResponses[k].version = "HTTP/1.1"
          /\ HttpResponses[k].status = CannedBuilt[k][1]
          /\ HttpResponses[k].headers =
                Dict(<< <<<<"Content-Length">>, <<"int", CannedBuilt[k][2]>>>> >>)
          /\ HttpResponses[k].data = <<CannedBuilt[k][3]>>
          /\ HttpResponses[k].headers.items[1][2][2] = StrLen(HttpResponses[k].data)
          /\ HttpResponses[k].headers.items[1][2][2] = ByteLen(HttpResponses[k].data)

C23_Witness ==
    \E t, u \in Slots :
        /\ t # u
        /\ handlers[t].pc = "returned" /\ handlers[t].wire = <<OkWire>>
        /\ handlers[u].pc = "close" /\ handlers[u].wire = <<NotFoundWire>>

\* What retrieve() would return at a path: the content of the file there, or none.
ContentAt(f, p) == IF f[p].kind = "file" THEN <<f[p].data>> ELSE <<>>

\* The handler answered its POST, PUT or DELETE with the canned 200.
AnsweredOk(h) ==
    /\ h.pc = "returned"
    /\ h.request # <<>>
    /\ h.request[1].method \in {"POST", "PUT", "DELETE"}
    /\ h.wire = <<OkWire>>

\* C24: when a handler of the single-threaded server has ended, the content
\* directory is as it was when the request arrived unless the request was a
\* POST, PUT or DELETE answered with the canned 200, and then no path other
\* than the requested one has another content than before.
C24_Frame ==
    \A t \in Slots :
        LET h == handlers[t]
        IN  Done(h) =>
              IF AnsweredOk(h)
              THEN \A p \in Paths \ {Url(h)} : ContentAt(fs, p) = ContentAt(h.pre, p)
              ELSE fs = h.pre

\* C25: in the concurrent server, with one GET and one PUT of the same path the
\* only connections and a file at the path when the PUT arrived, the GET ends
\* with a 200 response whose body is the old content or the body of the PUT.
C25_GetDuringPut ==
    \A t, u \in Slots :
        LET g == handlers[t]
            p == handlers[u]
        IN  (accepted = 2 /\ g.conn # p.conn
               /\ Handled(g, "GET") /\ Handled(p, "PUT") /\ Url(g) = Url(p)
               /\ p.pre[Url(p)].kind = "file" /\ Done(g)) =>
              /\ g.pc = "returned"
              /\ g.response[1].status = "OK"
              /\ g.response[1].data \in {TextRead(p.pre[Url(p)].data), Body(p)}

\* C26: a proxy handler that has ended has closed the upstream connection it
\* opened, and the upstream connections open are never more than the handlers
\* still running.
UpstreamOpen(h) ==
    Count(h.upstream, "connect") = 1 /\ Count(h.upstream, "close") = 0

C26_UpstreamClosed ==
    /\ \A t \in Slots : Done(handlers[t]) => ~UpstreamOpen(handlers[t])
    /\ Cardinality({t \in Slots : UpstreamOpen(handlers[t])})
          <= Cardinality({t \in Slots : handlers[t].pc \notin {"free", "returned", "raised"}})

\* The text the proxy hands to the client for the text it read from upstream.
Relayed(h) == HttpResponse_to_raw(http_response_from_raw(h.upraw).value[1])

\* The step writes to the upstream connection of slot t.
WritesUpstream(t) ==
    handlers'[t].upwire # handlers[t].upwire /\ handlers'[t].upwire # <<>>

\* The step sends a response to the client of slot t.
SendsClient(t) ==
    handlers'[t].wire # handlers[t].wire /\ handlers'[t].wire # <<>>

\* C27: the proxy writes to upstream only when the request of the client has been
\* received and decoded; it sends the client a relayed response only when a
\* response has been read from upstream, and what it sends is that response; a
\* client that sent nothing within the timeout is sent the canned 408 and nothing
\* is ever written to upstream for its connection.
C27_ProxyOrder ==
    /\ [][\A t \in Slots :
            WritesUpstream(t) =>
                /\ handlers[t].request # <<>>
                /\ Count(handlers[t].events, "recv") = 1
                /\ ~handlers[t].timedOut]_vars
    /\ [][\A t \in Slots :
            (SendsClient(t) /\ ~handlers[t].timedOut) =>
                /\ Count(handlers[t].upstream, "recv") = 1
                /\ ~http_response_from_raw(handlers[t].upraw).raised
                /\ handlers'[t].wire = <<Relayed(handlers[t])>>]_vars
    /\ [](\A t \in Slots :
            LET h == handlers[t]
            IN  h.timedOut =>
                  /\ h.upwire = <<>>
                  /\ Count(h.upstream, "send") = 0
                  /\ h.request = <<>>
                  /\ h.pc # "raised"
                  /\ (h.pc \in {"close", "returned"} => h.wire = <<TimeoutWire>>))

C27_Witness ==
    \E t, u \in Slots :
        /\ handlers[t].pc = "returned" /\ ~handlers[t].timedOut
        /\ handlers[t].upwire # <<>> /\ handlers[t].upraw # <<>>
        /\ handlers[t].wire = <<Relayed(handlers[t])>>
        /\ handlers[u].pc = "returned" /\ handlers[u].timedOut
        /\ handlers[u].upstream = <<"connect">>
        /\ handlers[u].wire = <<TimeoutWire>>

====
